---- MODULE Spec2Model ----
(***************************************************************************)
(* Model of the Review Board search indexer                                *)
(* (reviewboard/reviews/management/commands/index.py):                     *)
(*   - get_all_review_comments: thread reconstruction from the flat review *)
(*     rows and the review<->comment join rows;                            *)
(*   - flatten_comment: recursive flattening of a comment's reply chain;   *)
(*   - Command.handle_noargs / Command.index_review_request: the batch run *)
(*     with its watermark file and its Lucene index writer.                *)
(*                                                                         *)
(* Python's None is modelled by 0 (primary keys are positive).  Python     *)
(* lists that hold object references are sequences of references: a Review *)
(* object is referred to by its primary key (one object per fetched row,   *)
(* one row per review), a Comment object by the position of its join row   *)
(* in the fetched list (one object per row, even when two rows carry the   *)
(* same comment).  The attributes the code sets on the objects             *)
(* (_body_top_replies, _replies) are functions from reference to the       *)
(* attribute's value.  A dict is a function whose DOMAIN is its key set.   *)
(***************************************************************************)
EXTENDS Integers, Sequences, FiniteSets, TLC

\* ------------------------------------------------------------- bounds ----
MaxReviews == 3        \* reviews attached to one review request
MaxComments == 2       \* comments in the join table of one review request
MaxRows == 3           \* rows of the join table of one review request
\* The interpreter's recursion limit (sys.getrecursionlimit(), 1000 by
\* default), scaled down: the deepest chain of nested flatten_comment calls.
RecursionLimit == 4
MaxChain == 3          \* comments of the reply structures flatten_comment is run on
MaxRequests == 2       \* review requests in the database
MaxRuns == 2           \* runs of the index command
MaxTime == 2           \* the clock stops at this second

None == 0
ReviewIds == 1..MaxReviews
CommentIds == 1..MaxComments
\* A comment id that no join row carries (a reply target that is not fetched).
MissingComment == MaxComments + 1

EmptyDict == [k \in {} |-> <<>>]

\* dict[key] = value (insert or overwrite)
DictSet(d, k, v) == [x \in (DOMAIN d) \cup {k} |-> IF x = k THEN v ELSE d[x]]

\* the dict idiom of lines 80-84 and 98-101:
\*   if key not in d: d[key] = [item]   else: d[key].append(item)
DictAppend(d, k, item) ==
  IF k \notin DOMAIN d THEN DictSet(d, k, <<item>>)
  ELSE DictSet(d, k, Append(d[k], item))

Max(a, b) == IF a >= b THEN a ELSE b

SeqToSet(s) == {s[i] : i \in DOMAIN s}

VARIABLES
  \* ---- get_all_review_comments
  all_reviews,          \* list(review_request.reviews...): Review rows, fetch order
  through,              \* the whole join table: rows [review_id, comment], ordered
  pc,                   \* position inside get_all_review_comments
  public_reviews,       \* list of review pks
  replies,              \* dict parent pk -> list of review pks; rebound to
                        \* a list of review pks by the for of line 124
  reply_timestamps,     \* dict parent pk -> max timestamp
  body_top_replies,     \* dict target pk -> list of review pks
  body_bottom_replies,  \* dict target pk -> list of review pks
  reviews_id_map,       \* dict pk -> review (a set of pks: the key set)
  reviews_entry_map,    \* dict pk -> index of its entry in entries
  entries,              \* list of entry dicts
  rev_top,              \* review pk -> review._body_top_replies
  rev_bottom,           \* review pk -> review._body_bottom_replies
  objs,                 \* list(q): the fetched join rows; the query builds
                        \* one Comment object per row, and the object of
                        \* row i is referred to by i
  comment_map,          \* dict comment pk -> Comment object
  c_replies,            \* Comment object -> its _replies (list of objects)
  err,                  \* exception that ended the call, or "none"
  \* ---- flatten_comment
  fl_replies,           \* comment -> comment._replies (list of comments)
  fl_root,              \* the comment flatten_comment is called on
  fl_stack,             \* active calls, outermost first
  fl_state,             \* "running", "returned" or "raised"
  fl_text,              \* the value returned by the outermost call
  \* ---- the database, the search directory and the clock
  search_enable,        \* siteconfig.get("search_enable")
  have_lucene,          \* the import of lines 16-28 succeeded
  lv,                   \* lucene.VERSION as numbers: <<major, minor>>
  requests,             \* ReviewRequest rows: id -> [status, last_updated]
  req_reviews,          \* id -> the Review rows of the request
  req_through,          \* id -> the join rows of the request's reviews
  now,                  \* time.time(), in seconds
  ts_file,              \* the timestamp file: [exists, parses, value]
  index,                \* the Lucene index: its documents, oldest first
  \* ---- Command.handle_noargs
  hpc,                  \* position inside handle_noargs
  opt_incremental,      \* options.get('incremental')
  stdout_isatty,        \* sys.stdout.isatty() in this run
  incremental,
  timestamp,
  writer_open,          \* an IndexWriter is open on the index
  totalobjs,            \* objects.count() (line 259)
  objects,              \* the review requests the loop iterates over
  pos,                  \* index into objects of the next request
  progress,             \* the counter i of line 272
  stderr,               \* ids written by the except clause of lines 279-281
  optimized,            \* writer.optimize() was called in this run
  exc,                  \* exception that ended the run, or "none"
  run_started,          \* the clock when handle_noargs was entered
  runs                  \* runs started so far

reconVars == <<all_reviews, through, pc, public_reviews, replies,
               reply_timestamps, body_top_replies, body_bottom_replies,
               reviews_id_map, reviews_entry_map, entries, rev_top,
               rev_bottom, objs, comment_map, c_replies, err>>

flattenVars == <<fl_replies, fl_root, fl_stack, fl_state, fl_text>>

envVars == <<search_enable, have_lucene, lv, requests, req_reviews, req_through,
             now, ts_file, index>>

runVars == <<hpc, opt_incremental, stdout_isatty, incremental, timestamp,
             writer_open, totalobjs, objects, pos, progress, stderr,
             optimized, exc, run_started, runs>>

indexVars == <<envVars, runVars>>

vars == <<reconVars, flattenVars, indexVars>>

\* ---------------------------------------------- model helpers (not code) --
\* Review.is_reply() and Comment.is_reply() live in reviews/models.py:
\* "non-null base_reply_to => this review is itself a reply", and
\* "an optional reply_to self-reference making it a reply".
review_is_reply(review) == review.base_reply_to_id # None

comment_is_reply(comment) == comment.reply_to_id # None

\* The indexer variables when no indexing run is modelled.
IndexUnused ==
  /\ search_enable = TRUE
  /\ have_lucene = TRUE
  /\ lv = <<3, 0>>
  /\ requests = EmptyDict
  /\ req_reviews = EmptyDict
  /\ req_through = EmptyDict
  /\ now = 0
  /\ ts_file = [exists |-> FALSE, parses |-> FALSE, value |-> 0]
  /\ index = <<>>
  /\ hpc = "idle"
  /\ opt_incremental = TRUE
  /\ stdout_isatty = FALSE
  /\ incremental = TRUE
  /\ timestamp = 0
  /\ writer_open = FALSE
  /\ totalobjs = 0
  /\ objects = <<>>
  /\ pos = 1
  /\ progress = 0
  /\ stderr = <<>>
  /\ optimized = FALSE
  /\ exc = "none"
  /\ run_started = 0
  /\ runs = 0

\* The reconstruction variables when no call is in progress.
ReconUnused ==
  /\ all_reviews = <<>>
  /\ through = <<>>
  /\ pc = "returned"
  /\ public_reviews = <<>>
  /\ replies = EmptyDict
  /\ reply_timestamps = EmptyDict
  /\ body_top_replies = EmptyDict
  /\ body_bottom_replies = EmptyDict
  /\ reviews_id_map = EmptyDict
  /\ reviews_entry_map = EmptyDict
  /\ entries = <<>>
  /\ rev_top = EmptyDict
  /\ rev_bottom = EmptyDict
  /\ objs = <<>>
  /\ comment_map = EmptyDict
  /\ c_replies = EmptyDict
  /\ err = "none"

\* ------------------------------------------------- flatten_comment ------
\* Text is a sequence of tokens; "\n" is the token NL, and the text of
\* the comment with primary key c is the one token <<"comment", c>>.
\* flatten_comment works on Comment objects: `repl` gives an object's
\* _replies (a list of objects) and `text` its text attribute.
NL == <<"nl", None>>

CommentText(c) == << <<"comment", c>> >>

\* line 33: text + "\n" + <flattened reply>
JoinReply(text, sub) == text \o <<NL>> \o sub

\* The result of a call: ok = FALSE when the interpreter gave up with
\* "RuntimeError: maximum recursion depth exceeded".
RECURSIVE flatten_replies(_, _, _, _, _, _)
\* lines 32-33: the loop over comment._replies from index i, in a call at
\* nesting depth `depth`; the call on a reply runs one level deeper
flatten_replies(acc, list, i, repl, text, depth) ==
  IF i > Len(list) THEN [ok |-> TRUE, text |-> acc]
  ELSE LET sub == IF depth + 1 > RecursionLimit
                  THEN [ok |-> FALSE, text |-> <<>>]
                  ELSE flatten_replies(text[list[i]], repl[list[i]], 1,
                                       repl, text, depth + 1)
       IN IF ~sub.ok THEN sub
          ELSE flatten_replies(JoinReply(acc, sub.text), list, i + 1, repl,
                               text, depth)

\* lines 30-34, at nesting depth `depth` (1 for the outermost call)
flatten_comment(c, repl, text, depth) ==
  IF depth > RecursionLimit THEN [ok |-> FALSE, text |-> <<>>]
  ELSE flatten_replies(text[c], repl[c], 1, repl, text, depth)

\* The same function, one call or return at a time.  A frame is a call in
\* progress: its comment, the index of the next reply to visit, its text.
TopFrame == fl_stack[Len(fl_stack)]

\* line 33: the recursive call on the next reply
FlattenCall ==
  /\ fl_state = "running"
  /\ TopFrame.i <= Len(fl_replies[TopFrame.comment])
  /\ IF Len(fl_stack) >= RecursionLimit
     THEN /\ fl_state' = "raised"
          /\ UNCHANGED <<fl_stack, fl_text>>
     ELSE LET reply == fl_replies[TopFrame.comment][TopFrame.i] IN
          /\ fl_stack' = Append(fl_stack,
                                [ comment |-> reply, i |-> 1,
                                  text |-> CommentText(reply) ])
          /\ UNCHANGED <<fl_state, fl_text>>
  /\ UNCHANGED <<fl_replies, fl_root>>

\* line 34: return text, into the caller's "text = text + "\n" + ..."
FlattenReturn ==
  /\ fl_state = "running"
  /\ TopFrame.i > Len(fl_replies[TopFrame.comment])
  /\ IF Len(fl_stack) = 1
     THEN /\ fl_state' = "returned"
          /\ fl_text' = TopFrame.text
          /\ fl_stack' = <<>>
     ELSE LET n == Len(fl_stack) - 1 IN
          /\ fl_stack' = [ SubSeq(fl_stack, 1, n) EXCEPT
                             ![n].text = JoinReply(@, TopFrame.text),
                             ![n].i = @ + 1 ]
          /\ UNCHANGED <<fl_state, fl_text>>
  /\ UNCHANGED <<fl_replies, fl_root>>

FlattenUnused ==
  /\ fl_replies = EmptyDict
  /\ fl_root = None
  /\ fl_stack = <<>>
  /\ fl_state = "returned"
  /\ fl_text = <<>>

\* Reply lists over the comments: each list holds distinct comments.  The
\* structures include cyclic ones (A in B's list and B in A's); no comment
\* is in its own list.
ChainIds == 1..MaxChain

ReplyLists ==
  { l \in UNION {[1..k -> ChainIds] : k \in 0..(MaxChain - 1)} :
      \A i, j \in DOMAIN l : i # j => l[i] # l[j] }

InitFlatten ==
  /\ fl_replies \in { f \in [ChainIds -> ReplyLists] :
                        \A c \in ChainIds : c \notin SeqToSet(f[c]) }
  /\ fl_root \in ChainIds
  /\ fl_stack = << [comment |-> fl_root, i |-> 1, text |-> CommentText(fl_root)] >>
  /\ fl_state = "running"
  /\ fl_text = <<>>
  /\ ReconUnused
  /\ IndexUnused

NextFlatten ==
  \/ FlattenCall /\ UNCHANGED <<reconVars, indexVars>>
  \/ FlattenReturn /\ UNCHANGED <<reconVars, indexVars>>

SpecFlatten == InitFlatten /\ [][NextFlatten]_vars

\* ------------------------------------------- get_all_review_comments -----
\* The locals of lines 48-56 before the first loop.
ReviewLoopInit ==
  [ public_reviews      |-> <<>>,
    replies             |-> EmptyDict,
    reply_timestamps    |-> EmptyDict,
    body_top_replies    |-> EmptyDict,
    body_bottom_replies |-> EmptyDict,
    reviews_id_map      |-> EmptyDict,
    rev_top             |-> EmptyDict,
    rev_bottom          |-> EmptyDict ]

\* lines 73-87: the reply bookkeeping of one public review
TrackReply(s, review) ==
  LET parent_id == review.base_reply_to_id IN
  IF parent_id # None
  THEN [s EXCEPT
          !.replies = DictAppend(@, parent_id, review.pk),
          !.reply_timestamps =
             IF parent_id \notin DOMAIN s.replies
             THEN DictSet(@, parent_id, review.timestamp)
             ELSE DictSet(@, parent_id, Max(@[parent_id], review.timestamp))]
  ELSE s

\* Faulty variant: the top replies keyed by base_reply_to_id.
TrackBodyRepliesByBase(s, review) ==
  LET t == IF review.base_reply_to_id # None
           THEN [s EXCEPT !.body_top_replies =
                             DictAppend(@, review.base_reply_to_id, review.pk)]
           ELSE s
  IN IF review.body_bottom_reply_to_id # None
     THEN [t EXCEPT !.body_bottom_replies =
                       DictAppend(@, review.body_bottom_reply_to_id, review.pk)]
     ELSE t

\* lines 94-101: for reply_id, reply_list in ((top id, body_top_replies),
\*                                            (bottom id, body_bottom_replies))
TrackBodyReplies(s, review) ==
  LET t == IF review.body_top_reply_to_id # None
           THEN [s EXCEPT !.body_top_replies =
                             DictAppend(@, review.body_top_reply_to_id, review.pk)]
           ELSE s
  IN IF review.body_bottom_reply_to_id # None
     THEN [t EXCEPT !.body_bottom_replies =
                       DictAppend(@, review.body_bottom_reply_to_id, review.pk)]
     ELSE t

\* Faulty variant: the public flag is not consulted.
ReviewShownAlways(review) == TRUE

\* lines 67 and 89: "if review.public"

ReviewShown(review) == review.public

\* lines 64-101: the body of "for review in all_reviews"
ReviewLoopBody(s, review) ==
  LET s1 == [s EXCEPT !.rev_top = DictSet(@, review.pk, <<>>),
                      !.rev_bottom = DictSet(@, review.pk, <<>>)]
      s2 == IF ReviewShown(review)
            THEN TrackReply([s1 EXCEPT !.public_reviews = Append(@, review.pk)],
                            review)
            ELSE s1
  IN IF ReviewShown(review)
     THEN TrackBodyReplies(
            [s2 EXCEPT !.reviews_id_map = DictSet(@, review.pk, review)],
            review)
     ELSE s2

RECURSIVE ReviewLoop(_, _, _)
\* lines 63-101: the loop, from index i of the fetched list
ReviewLoop(s, reviews, i) ==
  IF i > Len(reviews) THEN s
  ELSE ReviewLoop(ReviewLoopBody(s, reviews[i]), reviews, i + 1)

\* Faulty variant: an entry for every public review, replies included.
EntryLoopBodyAll(e, review) ==
  [ entries |-> Append(e.entries,
                       [ review    |-> review.pk,
                         comments  |-> [diff_comments |-> <<>>],
                         timestamp |-> review.timestamp ]),
    reviews_entry_map |->
        DictSet(e.reviews_entry_map, review.pk, Len(e.entries) + 1) ]

\* lines 110-119: one iteration of "for review in public_reviews"
\* e = [entries, reviews_entry_map]
EntryLoopBody(e, review) ==
  IF ~review_is_reply(review)
  THEN [ entries |-> Append(e.entries,
                            [ review    |-> review.pk,
                              comments  |-> [diff_comments |-> <<>>],
                              timestamp |-> review.timestamp ]),
         reviews_entry_map |->
             DictSet(e.reviews_entry_map, review.pk, Len(e.entries) + 1) ]
  ELSE e

RECURSIVE EntryLoop(_, _, _, _)
\* lines 109-119
EntryLoop(e, pubs, idmap, i) ==
  IF i > Len(pubs) THEN e
  ELSE EntryLoop(EntryLoopBody(e, idmap[pubs[i]]), pubs, idmap, i + 1)

\* line 124, reply_list.iteritems(): a dict is iterated in an order the
\* language leaves to the implementation; every order of the keys is one.
Orders(keys) ==
  { o \in [1..Cardinality(keys) -> keys] :
      \A i, j \in DOMAIN o : i # j => o[i] # o[j] }

\* lines 124-125, one turn of "for reply_id, replies in reply_list.iteritems()":
\* the for statement rebinds the local name replies (the dict of line 52) to
\* the list, then reviews_id_map[reply_id] raises KeyError for a target that
\* is not a public review of this request, else the attribute is set.
\* l = [rev_top, rev_bottom, replies, err]
LinkLoopBody(l, key, reply_id, reply_list, idmap) ==
  IF reply_id \notin DOMAIN idmap
  THEN [l EXCEPT !.replies = reply_list[reply_id], !.err = "KeyError"]
  ELSE IF key = "_body_top_replies"
  THEN [l EXCEPT !.replies = reply_list[reply_id],
                 !.rev_top[reply_id] = reply_list[reply_id]]
  ELSE [l EXCEPT !.replies = reply_list[reply_id],
                 !.rev_bottom[reply_id] = reply_list[reply_id]]

RECURSIVE LinkLoop(_, _, _, _, _, _)
\* line 124: the turns over the keys of one dict; an exception ends the loop
LinkLoop(l, key, ids, i, reply_list, idmap) ==
  IF i > Len(ids) \/ l.err # "none" THEN l
  ELSE LinkLoop(LinkLoopBody(l, key, ids[i], reply_list, idmap),
                key, ids, i + 1, reply_list, idmap)

\* lines 122-125: first the top replies, then the bottom replies, the keys
\* of each dict in the order the iteration yields them
LinkAll(l, top, top_order, bottom, bottom_order, idmap) ==
  LinkLoop(LinkLoop(l, "_body_top_replies", top_order, 1, top, idmap),
           "_body_bottom_replies", bottom_order, 1, bottom, idmap)

\* line 142: through.objects.filter(review__in=review_ids), in the order of
\* line 145; review_ids = reviews_id_map.keys() (line 103)
FetchJoinRows(table, review_ids) ==
  SelectSeq(table, LAMBDA row : row.review_id \in review_ids)

RECURSIVE CommentMapLoop(_, _, _)
\* lines 153-156: comment_map[comment.pk] = comment; comment._replies = []
\* (a later row with the same comment pk replaces the earlier row's object)
\* m = [comment_map, c_replies]
CommentMapLoop(m, rows, i) ==
  IF i > Len(rows) THEN m
  ELSE CommentMapLoop(
         [ comment_map |-> DictSet(m.comment_map, rows[i].comment.pk, i),
           c_replies   |-> DictSet(m.c_replies, i, <<>>) ],
         rows, i + 1)

\* lines 175-177 for the comment (object obj) of a reply review:
\*   if comment.is_reply():
\*       replied_comment = comment_map[comment.reply_to_id]   (KeyError)
\*       replied_comment._replies.append(comment)
AttachReply(a, obj, comment, cmap) ==
  IF comment_is_reply(comment)
  THEN IF comment.reply_to_id \notin DOMAIN cmap
       THEN [a EXCEPT !.err = "KeyError"]
       ELSE [a EXCEPT !.c_replies[cmap[comment.reply_to_id]] = Append(@, obj)]
  ELSE a

\* lines 181-183: entry = reviews_entry_map[obj.review_id]
\*                entry['comments'][key].append(comment)
AttachTopLevel(a, obj, row, emap) ==
  IF row.review_id \notin DOMAIN emap
  THEN [a EXCEPT !.err = "AssertionError"]
  ELSE [a EXCEPT !.entries[emap[row.review_id]].comments.diff_comments =
                     Append(@, obj)]

\* lines 159-183: the body of the second "for obj in objs", for the row at
\* position obj
\* a = [entries, c_replies, err]
AttachLoopBody(a, obj, row, idmap, emap, cmap) ==
  IF row.review_id \notin DOMAIN idmap
  THEN [a EXCEPT !.err = "AssertionError"]                       \* line 163
  ELSE LET parent_review == idmap[row.review_id] IN
       IF review_is_reply(parent_review)
       THEN IF \/ row.review_id \in DOMAIN emap                  \* line 170
               \/ parent_review.base_reply_to_id \notin DOMAIN emap \* line 171
            THEN [a EXCEPT !.err = "AssertionError"]
            ELSE AttachReply(a, obj, row.comment, cmap)
       ELSE IF parent_review.public
            THEN AttachTopLevel(a, obj, row, emap)
            ELSE a

RECURSIVE AttachLoop(_, _, _, _, _, _)
\* lines 158-183; an exception ends the loop
AttachLoop(a, rows, i, idmap, emap, cmap) ==
  IF i > Len(rows) \/ a.err # "none" THEN a
  ELSE AttachLoop(AttachLoopBody(a, i, rows[i], idmap, emap, cmap),
                  rows, i + 1, idmap, emap, cmap)

\* ---- the call, phase by phase
\* lines 63-101
ReviewPhase ==
  /\ pc = "reviews"
  /\ LET s == ReviewLoop(ReviewLoopInit, all_reviews, 1) IN
       /\ public_reviews' = s.public_reviews
       /\ replies' = s.replies
       /\ reply_timestamps' = s.reply_timestamps
       /\ body_top_replies' = s.body_top_replies
       /\ body_bottom_replies' = s.body_bottom_replies
       /\ reviews_id_map' = s.reviews_id_map
       /\ rev_top' = s.rev_top
       /\ rev_bottom' = s.rev_bottom
  /\ pc' = "entries"
  /\ UNCHANGED <<all_reviews, through, reviews_entry_map, entries, objs,
                 comment_map, c_replies, err>>

\* lines 109-119
EntryPhase ==
  /\ pc = "entries"
  /\ LET e == EntryLoop([entries |-> <<>>, reviews_entry_map |-> EmptyDict],
                        public_reviews, reviews_id_map, 1) IN
       /\ entries' = e.entries
       /\ reviews_entry_map' = e.reviews_entry_map
  /\ pc' = "link"
  /\ UNCHANGED <<all_reviews, through, public_reviews, replies,
                 reply_timestamps, body_top_replies, body_bottom_replies,
                 reviews_id_map, rev_top, rev_bottom, objs, comment_map,
                 c_replies, err>>

\* lines 122-125
LinkPhase ==
  /\ pc = "link"
  /\ \E top_order \in Orders(DOMAIN body_top_replies),
        bottom_order \in Orders(DOMAIN body_bottom_replies) :
     LET l == LinkAll([rev_top |-> rev_top, rev_bottom |-> rev_bottom,
                       replies |-> replies, err |-> "none"],
                      body_top_replies, top_order,
                      body_bottom_replies, bottom_order,
                      reviews_id_map) IN
       /\ rev_top' = l.rev_top
       /\ rev_bottom' = l.rev_bottom
       /\ replies' = l.replies
       /\ err' = l.err
       /\ pc' = IF l.err = "none" THEN "fetch" ELSE "raised"
  /\ UNCHANGED <<all_reviews, through, public_reviews, reply_timestamps,
                 body_top_replies, body_bottom_replies, reviews_id_map,
                 reviews_entry_map, entries, objs, comment_map, c_replies>>

\* lines 139-156: the join-row query and the first pass over its rows
FetchPhase ==
  /\ pc = "fetch"
  /\ objs' = FetchJoinRows(through, DOMAIN reviews_id_map)
  /\ LET m == CommentMapLoop([comment_map |-> EmptyDict,
                              c_replies |-> EmptyDict], objs', 1) IN
       /\ comment_map' = m.comment_map
       /\ c_replies' = m.c_replies
  /\ pc' = "attach"
  /\ UNCHANGED <<all_reviews, through, public_reviews, replies,
                 reply_timestamps, body_top_replies, body_bottom_replies,
                 reviews_id_map, reviews_entry_map, entries, rev_top,
                 rev_bottom, err>>

\* lines 158-185: the second pass, then "return entries"
AttachPhase ==
  /\ pc = "attach"
  /\ LET a == AttachLoop([entries |-> entries, c_replies |-> c_replies,
                          err |-> "none"],
                         objs, 1, reviews_id_map, reviews_entry_map,
                         comment_map) IN
       /\ entries' = a.entries
       /\ c_replies' = a.c_replies
       /\ err' = a.err
       /\ pc' = IF a.err = "none" THEN "returned" ELSE "raised"
  /\ UNCHANGED <<all_reviews, through, public_reviews, replies,
                 reply_timestamps, body_top_replies, body_bottom_replies,
                 reviews_id_map, reviews_entry_map, rev_top, rev_bottom,
                 objs, comment_map>>

\* ---- the rows a review request can have in the database
\* The k-th review other than pk (k >= 1), or None for k = 0.
OtherId(pk, k) == IF k = 0 THEN None ELSE IF k < pk THEN k ELSE k + 1

\* A reply review answers the body of the review it replies to, so its
\* body_*_reply_to is that review or null.
BodyLinks == {<<FALSE, FALSE>>, <<TRUE, FALSE>>, <<FALSE, TRUE>>, <<TRUE, TRUE>>}

\* A reply is written after the review it replies to and the reviews are
\* fetched oldest first, so a reply's parent is an earlier row (pk = position).
ReviewChoices(n) ==
  { <<pub, base, bl>> : pub \in BOOLEAN, base \in 0..(n - 1), bl \in BodyLinks }

MkReview(pk, ch) ==
  [ pk |-> pk, public |-> ch[1], base_reply_to_id |-> ch[2],
    body_top_reply_to_id |-> IF ch[3][1] THEN ch[2] ELSE None,
    body_bottom_reply_to_id |-> IF ch[3][2] THEN ch[2] ELSE None,
    timestamp |-> pk ]

ReviewSets(n) ==
  { [i \in 1..n |-> MkReview(i, f[i])] :
      f \in { g \in [1..n -> ReviewChoices(n)] :
                \A i \in 1..n : /\ g[i][2] < i
                                /\ (g[i][2] = None => g[i][3] = <<FALSE, FALSE>>) } }

\* The comments of a review request: comment pk replies to no comment, to
\* another of the m comments, or to a comment that is not among them.
CommentChoices(m) == [1..m -> 0..m]

MkComment(pk, k, m) ==
  [ pk |-> pk,
    reply_to_id |-> IF k = m THEN MissingComment ELSE OtherId(pk, k) ]

\* The rows of the many-to-many relation between reviews and comments, as
\* <<review, comment>> pairs in the order of line 145.  The ordering fields
\* are the comment's: the comments taken here differ in them and are named
\* by their place in that order, so the rows of one comment are adjacent;
\* these rows tie, and their order is the database's choice.  No pair
\* occurs twice and each of the m comments is joined to at least one
\* review, possibly to several.
RowPairs(n, m, r) ==
  { t \in [1..r -> (1..n) \X (1..m)] :
      /\ \A i \in 1..(r - 1) : t[i][2] <= t[i + 1][2]
      /\ \A i, j \in 1..r : i # j => t[i] # t[j]
      /\ \A c \in 1..m : \E i \in 1..r : t[i][2] = c }

MkRow(pair, ch, m) ==
  [ review_id |-> pair[1], comment |-> MkComment(pair[2], ch[pair[2]], m) ]

JoinTables(n, m) ==
  UNION { { [i \in 1..r |-> MkRow(t[i], ch, m)] :
              t \in RowPairs(n, m, r), ch \in CommentChoices(m) } :
          r \in m..MaxRows }

InitRecon ==
  /\ \E n \in 0..MaxReviews :
       /\ all_reviews \in ReviewSets(n)
       /\ \E m \in 0..(IF n = 0 THEN 0 ELSE MaxComments) :
            through \in JoinTables(n, m)
  /\ pc = "reviews"
  /\ public_reviews = <<>>
  /\ replies = EmptyDict
  /\ reply_timestamps = EmptyDict
  /\ body_top_replies = EmptyDict
  /\ body_bottom_replies = EmptyDict
  /\ reviews_id_map = EmptyDict
  /\ reviews_entry_map = EmptyDict
  /\ entries = <<>>
  /\ rev_top = EmptyDict
  /\ rev_bottom = EmptyDict
  /\ objs = <<>>
  /\ comment_map = EmptyDict
  /\ c_replies = EmptyDict
  /\ err = "none"
  /\ FlattenUnused
  /\ IndexUnused

NextRecon ==
  \/ ReviewPhase /\ UNCHANGED <<flattenVars, indexVars>>
  \/ EntryPhase /\ UNCHANGED <<flattenVars, indexVars>>
  \/ LinkPhase /\ UNCHANGED <<flattenVars, indexVars>>
  \/ FetchPhase /\ UNCHANGED <<flattenVars, indexVars>>
  \/ AttachPhase /\ UNCHANGED <<flattenVars, indexVars>>

SpecRecon == InitRecon /\ [][NextRecon]_vars

\* ------------------------------------- get_all_review_comments, as a call --
\* lines 139-183 after the links l were set: the rows (objs), the entries,
\* the _replies of the Comment objects and the exception
FetchAndAttach(l, s, e, rows) ==
  LET m == CommentMapLoop([comment_map |-> EmptyDict,
                           c_replies |-> EmptyDict], rows, 1)
      a == AttachLoop([entries |-> e.entries, c_replies |-> m.c_replies,
                       err |-> "none"],
                      rows, 1, s.reviews_id_map, e.reviews_entry_map,
                      m.comment_map)
  IN [ err |-> a.err, entries |-> a.entries, rev_top |-> l.rev_top,
       rev_bottom |-> l.rev_bottom, objs |-> rows, c_replies |-> a.c_replies ]

\* lines 121-183 after the two loops over the reviews.  A call that raises
\* returns nothing: what the links were when line 125 raised depends on the
\* iteration order and is out of the caller's reach.
LinkFetchAttach(l, s, e, table) ==
  IF l.err # "none"
  THEN [ err |-> l.err, entries |-> <<>>, rev_top |-> EmptyDict,
         rev_bottom |-> EmptyDict, objs |-> <<>>, c_replies |-> EmptyDict ]
  ELSE FetchAndAttach(l, s, e, FetchJoinRows(table, DOMAIN s.reviews_id_map))

\* lines 109-183 after the loop over all_reviews left the locals s.  Whether
\* line 125 raises, and the links set when it does not, are the same for
\* every iteration order, so one order is taken.
EntriesAndRest(s, table) ==
  LinkFetchAttach(
    LinkAll([rev_top |-> s.rev_top, rev_bottom |-> s.rev_bottom,
             replies |-> s.replies, err |-> "none"],
            s.body_top_replies,
            CHOOSE o \in Orders(DOMAIN s.body_top_replies) : TRUE,
            s.body_bottom_replies,
            CHOOSE o \in Orders(DOMAIN s.body_bottom_replies) : TRUE,
            s.reviews_id_map),
    s,
    EntryLoop([entries |-> <<>>, reviews_entry_map |-> EmptyDict],
              s.public_reviews, s.reviews_id_map, 1),
    table)

\* lines 36-185 in one piece: the exception raised ("none" when the call
\* returns), the entries, and the objects reached from them: the reviews'
\* _body_top_replies and _body_bottom_replies, the fetched rows and the
\* _replies of their Comment objects.
get_all_review_comments(reviews, table) ==
  EntriesAndRest(ReviewLoop(ReviewLoopInit, reviews, 1), table)

\* ------------------------------------------- Command.index_review_request --
\* lines 21-23
lucene_is_2x == lv[1] = 2 /\ lv[2] < 9

lucene_is_3x == lv[1] = 3 \/ (lv[1] = 2 /\ lv[2] = 9)

\* review.body_top and review.body_bottom, one token each
BodyText(pk) == << <<"body_top", pk>>, NL, <<"body_bottom", pk>> >>

RECURSIVE JoinLines(_, _)
\* "\n".join(texts); the join of no text is the empty string
JoinLines(texts, i) ==
  IF i > Len(texts) THEN <<>>
  ELSE IF i = Len(texts) THEN texts[i]
  ELSE texts[i] \o <<NL>> \o JoinLines(texts, i + 1)

RECURSIVE FlattenAll(_, _, _, _)
\* map(lambda x: flatten_comment(x), comments): the texts, or the failure
FlattenAll(comments, repl, text, i) ==
  IF i > Len(comments) THEN [ok |-> TRUE, texts |-> <<>>]
  ELSE LET f == flatten_comment(comments[i], repl, text, 1)
           rest == FlattenAll(comments, repl, text, i + 1)
       IN IF f.ok /\ rest.ok
          THEN [ok |-> TRUE, texts |-> <<f.text>> \o rest.texts]
          ELSE [ok |-> FALSE, texts |-> <<>>]

\* lines 337-342: the text one entry adds to comment_text
EntryText(comment_text, entry, r) ==
  LET review == entry.review
      t1 == JoinLines(<<comment_text, BodyText(review)>>, 1)
      review_top_replies ==
        JoinLines([k \in DOMAIN r.rev_top[review] |->
                     BodyText(r.rev_top[review][k])], 1)
      review_bot_replies ==
        JoinLines([k \in DOMAIN r.rev_bottom[review] |->
                     BodyText(r.rev_bottom[review][k])], 1)
      t2 == JoinLines(<<t1, review_top_replies, review_bot_replies>>, 1)
      fl == FlattenAll(entry.comments.diff_comments, r.c_replies,
                       [o \in DOMAIN r.objs |->
                          CommentText(r.objs[o].comment.pk)], 1)
  IN [ok |-> fl.ok, text |-> t2 \o JoinLines(fl.texts, 1)]

RECURSIVE CommentTextLoop(_, _, _)
\* lines 335-342
CommentTextLoop(acc, r, i) ==
  IF i > Len(r.entries) \/ ~acc.ok THEN acc
  ELSE CommentTextLoop(EntryText(acc.text, r.entries[i], r), r, i + 1)

\* lines 335-345: the comment field from the reconstruction's result
CommentField(r) ==
  IF r.err = "none" THEN CommentTextLoop([ok |-> TRUE, text |-> <<>>], r, 1)
  ELSE [ok |-> FALSE, text |-> <<>>]

\* lines 307-376: the exception raised while the document is built ("none"
\* when it is built) and the document.  Of the document's fields the model
\* keeps id (stored, Field.Index.NO) and comment.
BuildDocument(id, r, ct) ==
  [ err |-> IF ~(lucene_is_2x \/ lucene_is_3x) THEN "AssertionError" \* 294-301
            ELSE IF r.err # "none" THEN r.err
            ELSE IF ~ct.ok THEN "RuntimeError" ELSE "none",
    doc |-> [ id |-> id, id_index |-> "NO", comment |-> ct.text ] ]

BuildDocumentFrom(id, r) == BuildDocument(id, r, CommentField(r))

\* lines 293-377, up to the call of writer.addDocument
index_review_request(id, reviews, table) ==
  BuildDocumentFrom(id, get_all_review_comments(reviews, table))

\* ------------------------------------------------------ the index writer --
\* Lucene's IndexWriter.deleteDocuments(Term(field, value)) deletes the
\* documents that contain the term, and a document contains a term only for
\* a field it indexes: a field added with Field.Index.NO has no terms.
TermMatches(doc, value) == doc.id_index # "NO" /\ doc.id = value

\* line 267: writer.deleteDocuments(lucene.Term('id', str(request.id)))
DeleteDocuments(idx, value) ==
  SelectSeq(idx, LAMBDA doc : ~TermMatches(doc, value))

\* --------------------------------------------------- Command.handle_noargs --
Resting == {"idle", "finished", "exited", "crashed"}

\* Faulty variant: the timestamp file is rewritten after the writer closes.
HandleNoargsWriteLast(p) ==
  CASE p = "read_ts"     -> "open_writer"
    [] p = "open_writer" -> "count"
    [] p = "count"       -> "fetch"
    [] p = "fetch"       -> "loop"
    [] p = "loop"        -> "optimize"
    [] p = "optimize"    -> "close"
    [] p = "close"       -> "write_ts"
    [] p = "write_ts"    -> "finished"

\* The order of the steps of handle_noargs after the configuration checks:
\* the timestamp file is read (217-228) and rewritten (230-232), then the
\* writer is opened (234-246), the selected requests are counted (248-261),
\* fetched (263) and indexed (264-281), the index optimized (285) and the
\* writer closed (291).
HandleNoargsNext(p) ==
  CASE p = "read_ts"     -> "write_ts"
    [] p = "write_ts"    -> "open_writer"
    [] p = "open_writer" -> "count"
    [] p = "count"       -> "fetch"
    [] p = "fetch"       -> "loop"
    [] p = "loop"        -> "optimize"
    [] p = "optimize"    -> "close"
    [] p = "close"       -> "finished"

\* A narrower handler, "except lucene.JavaError": only the writer's errors
\* are caught.
CaughtJavaErrorOnly(e) == e = "JavaError"

\* line 279: "except Exception, e" catches every exception but the three
\* that derive from BaseException only (KeyError, AssertionError,
\* RuntimeError, AttributeError and PyLucene's JavaError are all subclasses
\* of Exception).
Caught(e) == e \notin {"KeyboardInterrupt", "SystemExit", "GeneratorExit"}

\* lines 248-255: the eligible requests, and in incremental mode those
\* modified after the old watermark
Selected(id) ==
  /\ requests[id].status \in {"P", "S"}
  /\ incremental => requests[id].last_updated > timestamp

\* lines 196-215: the option, and the two checks that end in sys.exit(1)
Enter ==
  /\ hpc \in Resting
  /\ runs < MaxRuns
  /\ runs' = runs + 1
  /\ \E inc \in BOOLEAN :
       /\ opt_incremental' = inc
       /\ incremental' = inc
  /\ stdout_isatty' \in BOOLEAN
  /\ hpc' = IF search_enable /\ have_lucene THEN "read_ts" ELSE "exited"
  /\ timestamp' = 0
  /\ writer_open' = FALSE
  /\ totalobjs' = 0
  /\ objects' = <<>>
  /\ pos' = 1
  /\ progress' = 0
  /\ stderr' = <<>>
  /\ optimized' = FALSE
  /\ exc' = "none"
  /\ run_started' = now
  /\ UNCHANGED envVars

\* lines 217-228: int(f.read()) raises ValueError on content that is not a
\* number; only IOError is caught
ReadTimestamp ==
  /\ hpc = "read_ts"
  /\ IF ~incremental
     THEN /\ hpc' = HandleNoargsNext(hpc)
          /\ UNCHANGED <<incremental, timestamp, exc>>
     ELSE IF ~ts_file.exists
     THEN /\ incremental' = FALSE
          /\ hpc' = HandleNoargsNext(hpc)
          /\ UNCHANGED <<timestamp, exc>>
     ELSE IF ~ts_file.parses
     THEN /\ exc' = "ValueError"
          /\ hpc' = "crashed"
          /\ UNCHANGED <<incremental, timestamp>>
     ELSE /\ timestamp' = ts_file.value
          /\ hpc' = HandleNoargsNext(hpc)
          /\ UNCHANGED <<incremental, exc>>
  /\ UNCHANGED <<envVars, opt_incremental, stdout_isatty, writer_open,
                 totalobjs, objects, pos, progress, stderr, optimized,
                 run_started, runs>>

\* lines 230-232
WriteTimestamp ==
  /\ hpc = "write_ts"
  /\ ts_file' = [exists |-> TRUE, parses |-> TRUE, value |-> now]
  /\ hpc' = HandleNoargsNext(hpc)
  /\ UNCHANGED <<search_enable, have_lucene, lv, requests, req_reviews,
                 req_through, now, index, opt_incremental, stdout_isatty,
                 incremental, timestamp, writer_open, totalobjs, objects,
                 pos, progress, stderr, optimized, exc, run_started, runs>>

\* lines 234-246: IndexWriter(store, analyzer, create = not incremental);
\* create = true starts from an empty index.  The constructor (lines 236,
\* 241) is inside no try: a JavaError it raises (the directory is locked or
\* cannot be read) ends the run, the timestamp file already rewritten.  With
\* a PyLucene that is neither 2.x nor 3.x the else branch's "assert False"
\* ends the run.
OpenWriter ==
  /\ hpc = "open_writer"
  /\ IF lucene_is_2x \/ lucene_is_3x
     THEN \E fails \in BOOLEAN :
            IF fails
            THEN /\ exc' = "JavaError"
                 /\ hpc' = "crashed"
                 /\ UNCHANGED <<writer_open, index>>
            ELSE /\ writer_open' = TRUE
                 /\ index' = IF ~incremental THEN <<>> ELSE index
                 /\ hpc' = HandleNoargsNext(hpc)
                 /\ UNCHANGED exc
     ELSE /\ exc' = "AssertionError"
          /\ hpc' = "crashed"
          /\ UNCHANGED <<writer_open, index>>
  /\ UNCHANGED <<search_enable, have_lucene, lv, requests, req_reviews,
                 req_through, now, ts_file, opt_incremental, stdout_isatty,
                 incremental, timestamp, totalobjs, objects, pos, progress,
                 stderr, optimized, run_started, runs>>

\* lines 248-261: the query set is built (no query is sent) and
\* totalobjs = objects.count() sends a COUNT query of its own
CountObjects ==
  /\ hpc = "count"
  /\ totalobjs' = Cardinality({id \in DOMAIN requests : Selected(id)})
  /\ hpc' = HandleNoargsNext(hpc)
  /\ UNCHANGED <<envVars, opt_incremental, stdout_isatty, incremental,
                 timestamp, writer_open, objects, pos, progress, stderr,
                 optimized, exc, run_started, runs>>

\* line 263: "for request in objects" sends the SELECT, on the rows as they
\* are then (they may have changed since the count).  The query has no
\* order_by, so the order of the rows is the database's choice.
FetchObjects ==
  /\ hpc = "fetch"
  /\ objects' \in Orders({id \in DOMAIN requests : Selected(id)})
  /\ pos' = 1
  /\ hpc' = IF objects' = <<>> THEN HandleNoargsNext("loop")
            ELSE HandleNoargsNext(hpc)
  /\ UNCHANGED <<envVars, opt_incremental, stdout_isatty, incremental,
                 timestamp, writer_open, totalobjs, progress, stderr,
                 optimized, exc, run_started, runs>>

\* lines 264-281: the exception one iteration ends with ("none" when it ends
\* with none), given what fails outside the reconstruction (the writer's
\* delete or add, or an attribute of the request: a null request.submitter
\* at line 325) and the built document.  On a terminal, line 273 divides by
\* totalobjs after the document was added.
IterationException(fault, res) ==
  IF fault = "delete" THEN "JavaError"
  ELSE IF ~(lucene_is_2x \/ lucene_is_3x) THEN "AssertionError"  \* 294-301
  ELSE IF fault = "fields" THEN "AttributeError"
  ELSE IF res.err # "none" THEN res.err
  ELSE IF fault = "add" THEN "JavaError"
  ELSE IF stdout_isatty /\ totalobjs = 0 THEN "ZeroDivisionError" \* 273
  ELSE "none"

\* writer.addDocument (line 377) returned: the iteration ended with no
\* exception or with that of line 273
DocumentAdded(e) == e \in {"none", "ZeroDivisionError"}

\* lines 266-269 and 377: the index after the iteration
IterationIndex(e, deleted, res) ==
  IF DocumentAdded(e) THEN Append(deleted, res.doc) ELSE deleted

\* lines 264-281 for request id, ending with exception e ("none": none)
Iterate(id, e, newIndex) ==
  /\ index' = newIndex
  /\ progress' = IF DocumentAdded(e) /\ stdout_isatty            \* 271-272
                 THEN progress + 1 ELSE progress
  /\ IF e = "none" \/ Caught(e)
     THEN /\ stderr' = IF e = "none" THEN stderr ELSE Append(stderr, id)
          /\ pos' = pos + 1
          /\ hpc' = IF pos + 1 > Len(objects) THEN HandleNoargsNext(hpc)
                    ELSE hpc
          /\ UNCHANGED exc
     ELSE /\ exc' = e
          /\ hpc' = "crashed"
          /\ UNCHANGED <<stderr, pos>>

IterateWith(id, fault, deleted, res) ==
  Iterate(id, IterationException(fault, res),
          IterationIndex(IterationException(fault, res), deleted, res))

\* lines 263-281: one iteration of "for request in objects".  The writer
\* may reject the delete or the add and the request may lack its submitter
\* (fault); the request's reviews and comments decide whether the
\* reconstruction raises.
IndexOne ==
  /\ hpc = "loop"
  /\ pos <= Len(objects)
  /\ \E fault \in {"none", "delete", "fields", "add"} :
       /\ fault = "delete" => incremental
       /\ IterateWith(objects[pos], fault,
                      IF incremental /\ fault # "delete"
                      THEN DeleteDocuments(index, objects[pos]) ELSE index,
                      index_review_request(objects[pos],
                                           req_reviews[objects[pos]],
                                           req_through[objects[pos]]))
  /\ UNCHANGED <<search_enable, have_lucene, lv, requests, req_reviews,
                 req_through, now, ts_file, opt_incremental, stdout_isatty,
                 incremental, timestamp, writer_open, totalobjs, objects,
                 optimized, run_started, runs>>

\* line 285: writer.optimize(); a JavaError it raises is caught by nothing
\* and ends the run with the writer still open
Optimize ==
  /\ hpc = "optimize"
  /\ optimized' = TRUE
  /\ \E fails \in BOOLEAN :
       IF fails
       THEN hpc' = "crashed" /\ exc' = "JavaError"
       ELSE hpc' = HandleNoargsNext(hpc) /\ UNCHANGED exc
  /\ UNCHANGED <<envVars, opt_incremental, stdout_isatty, incremental,
                 timestamp, writer_open, totalobjs, objects, pos, progress,
                 stderr, run_started, runs>>

\* line 291: writer.close(); a JavaError it raises is caught by nothing and
\* ends the run
Close ==
  /\ hpc = "close"
  /\ \E fails \in BOOLEAN :
       IF fails
       THEN hpc' = "crashed" /\ exc' = "JavaError" /\ UNCHANGED writer_open
       ELSE /\ writer_open' = FALSE
            /\ hpc' = HandleNoargsNext(hpc)
            /\ UNCHANGED exc
  /\ UNCHANGED <<envVars, opt_incremental, stdout_isatty, incremental,
                 timestamp, totalobjs, objects, pos, progress, stderr,
                 optimized, run_started, runs>>

\* ---- the environment of the command
\* A second passes.
Tick ==
  /\ now < MaxTime
  /\ now' = now + 1
  /\ UNCHANGED <<search_enable, have_lucene, lv, requests, req_reviews,
                 req_through, ts_file, index, runVars>>

\* A review request is modified (last_updated = now), between two runs or
\* while a run is in progress.
Touch ==
  /\ \E id \in DOMAIN requests :
       /\ requests[id].last_updated < now
       /\ requests' = [requests EXCEPT ![id].last_updated = now]
  /\ UNCHANGED <<search_enable, have_lucene, lv, req_reviews, req_through, now,
                 ts_file, index, runVars>>

\* Between two runs the timestamp file is lost or left without a number
\* (a run killed between open(..., 'w') and write leaves it empty).
DamageTimestamp ==
  /\ hpc \in Resting
  /\ ts_file.exists /\ ts_file.parses
  /\ \E stays \in BOOLEAN :
       ts_file' = [exists |-> stays, parses |-> FALSE, value |-> 0]
  /\ UNCHANGED <<search_enable, have_lucene, lv, requests, req_reviews,
                 req_through, now, index, runVars>>

\* ---- the data of a review request
\* A review with one diff comment, and a public reply to it that answers the
\* body top and the comment.
ThreadReviews ==
  << MkReview(1, <<TRUE, None, <<FALSE, FALSE>>>>),
     MkReview(2, <<TRUE, 1, <<TRUE, FALSE>>>>) >>

ThreadRows ==
  << [review_id |-> 1, comment |-> [pk |-> 1, reply_to_id |-> None]],
     [review_id |-> 2, comment |-> [pk |-> 2, reply_to_id |-> 1]] >>

\* The same reviews, the reply's comment answering a comment that is not
\* among the join rows.
OrphanRows ==
  << [review_id |-> 2,
      comment |-> [pk |-> 1, reply_to_id |-> MissingComment]] >>

RequestData == { [reviews |-> ThreadReviews, through |-> ThreadRows],
                 [reviews |-> ThreadReviews, through |-> OrphanRows] }

RequestIds == 1..MaxRequests

\* PyLucene 2.9 (not 2.x by line 22, handled as 3.x by line 23) and 4.10
\* (neither)
LuceneVersions == {<<2, 9>>, <<4, 10>>}

\* A fresh installation: no timestamp file, an empty index.
InitIndex ==
  /\ search_enable \in BOOLEAN
  /\ have_lucene \in BOOLEAN
  /\ lv \in (IF have_lucene THEN LuceneVersions ELSE {<<0, 0>>})
  /\ requests \in [RequestIds -> [status : {"P", "S", "D"}, last_updated : {0}]]
  /\ \E data \in [RequestIds -> RequestData] :
       /\ req_reviews = [id \in RequestIds |-> data[id].reviews]
       /\ req_through = [id \in RequestIds |-> data[id].through]
  /\ now = 0
  /\ ts_file = [exists |-> FALSE, parses |-> FALSE, value |-> 0]
  /\ index = <<>>
  /\ hpc = "idle"
  /\ opt_incremental = TRUE
  /\ stdout_isatty = FALSE
  /\ incremental = TRUE
  /\ timestamp = 0
  /\ writer_open = FALSE
  /\ totalobjs = 0
  /\ objects = <<>>
  /\ pos = 1
  /\ progress = 0
  /\ stderr = <<>>
  /\ optimized = FALSE
  /\ exc = "none"
  /\ run_started = 0
  /\ runs = 0
  /\ ReconUnused
  /\ FlattenUnused

NextIndex ==
  \/ Enter /\ UNCHANGED <<reconVars, flattenVars>>
  \/ ReadTimestamp /\ UNCHANGED <<reconVars, flattenVars>>
  \/ WriteTimestamp /\ UNCHANGED <<reconVars, flattenVars>>
  \/ OpenWriter /\ UNCHANGED <<reconVars, flattenVars>>
  \/ CountObjects /\ UNCHANGED <<reconVars, flattenVars>>
  \/ FetchObjects /\ UNCHANGED <<reconVars, flattenVars>>
  \/ IndexOne /\ UNCHANGED <<reconVars, flattenVars>>
  \/ Optimize /\ UNCHANGED <<reconVars, flattenVars>>
  \/ Close /\ UNCHANGED <<reconVars, flattenVars>>
  \/ Tick /\ UNCHANGED <<reconVars, flattenVars>>
  \/ Touch /\ UNCHANGED <<reconVars, flattenVars>>
  \/ DamageTimestamp /\ UNCHANGED <<reconVars, flattenVars>>

SpecIndex == InitIndex /\ [][NextIndex]_vars

\* ------------------------------------------------ reconstruction claims --
EntryReviews == [i \in DOMAIN entries |-> entries[i].review]

PksOf(reviews) == [i \in DOMAIN reviews |-> reviews[i].pk]

\* the primary keys of the comments a list of Comment objects holds
CommentPks(list) == {objs[list[k]].comment.pk : k \in DOMAIN list}

InAnyEntryList(c) ==
  \E i \in DOMAIN entries : c \in CommentPks(entries[i].comments.diff_comments)

InAnyReplyList(c) ==
  \E k \in DOMAIN c_replies : c \in CommentPks(c_replies[k])

\* C1: the returned entries are, in fetch order, exactly the public reviews
\* whose base_reply_to is null, one entry each; no entry's review is a reply.
C1_EntriesAreTopLevelPublic ==
  pc = "returned" =>
    /\ EntryReviews =
         PksOf(SelectSeq(all_reviews,
                         LAMBDA r : r.public /\ r.base_reply_to_id = None))
    /\ \A i \in DOMAIN entries :
         all_reviews[entries[i].review].base_reply_to_id = None

C1_Witness ==
  /\ pc = "returned"
  /\ Len(entries) = 2
  /\ \E i \in DOMAIN all_reviews :
       all_reviews[i].public /\ all_reviews[i].base_reply_to_id # None

\* C2: no comment with a non-null reply_to is in any entry's diff_comments
\* list, whatever review owns it.
C2_NoReplyCommentInEntry ==
  pc = "returned" =>
    \A i \in DOMAIN objs :
      objs[i].comment.reply_to_id # None => ~InAnyEntryList(objs[i].comment.pk)

\* C3, for the comments the code looks a reply target up for (those of reply
\* reviews, lines 175-177): a fetched comment whose reply_to is not among
\* the fetched comments does not make the call raise, and is in no entry list
\* and no reply list.  Calls ended by a failed assertion are left out.
HasOrphan(i) ==
  /\ objs[i].comment.reply_to_id # None
  /\ objs[i].comment.reply_to_id \notin DOMAIN comment_map
  /\ review_is_reply(reviews_id_map[objs[i].review_id])

C3_OrphanDropped ==
  (pc \in {"returned", "raised"} /\ err # "AssertionError") =>
    \A i \in DOMAIN objs :
      HasOrphan(i) =>
        /\ pc = "returned"
        /\ ~InAnyEntryList(objs[i].comment.pk)
        /\ ~InAnyReplyList(objs[i].comment.pk)

\* C4 as stated: a review that is not public is no entry's review, is in no
\* review's _body_top_replies or _body_bottom_replies, and none of the
\* comments joined to it is in an entry list or a reply list.
C4_DraftsInvisible ==
  \A d \in DOMAIN all_reviews :
    ~all_reviews[d].public =>
      /\ \A i \in DOMAIN entries : entries[i].review # d
      /\ \A r \in DOMAIN rev_top : d \notin SeqToSet(rev_top[r])
      /\ \A r \in DOMAIN rev_bottom : d \notin SeqToSet(rev_bottom[r])
      /\ \A j \in DOMAIN through :
           through[j].review_id = d =>
             /\ ~InAnyEntryList(through[j].comment.pk)
             /\ ~InAnyReplyList(through[j].comment.pk)

\* the join rows that carry comment c
RowsOf(c) == {j \in DOMAIN through : through[j].comment.pk = c}

\* the Comment objects held by the entry lists and the reply lists
ListedObjects ==
  UNION ( {SeqToSet(entries[i].comments.diff_comments) : i \in DOMAIN entries}
          \cup {SeqToSet(c_replies[k]) : k \in DOMAIN c_replies} )

\* C4 amended: a review that is not public is no entry's review and is in no
\* review's _body_top_replies or _body_bottom_replies; none of its join rows
\* is fetched, so every Comment object in an entry list or a reply list was
\* built from the join row of a public review; a comment joined to it is in
\* those lists only when the comment is also joined to a public review -- in
\* every state of the call.
C4_DraftRowsInvisible ==
  /\ \A d \in DOMAIN all_reviews :
       ~all_reviews[d].public =>
         /\ \A i \in DOMAIN entries : entries[i].review # d
         /\ \A r \in DOMAIN rev_top : d \notin SeqToSet(rev_top[r])
         /\ \A r \in DOMAIN rev_bottom : d \notin SeqToSet(rev_bottom[r])
         /\ \A i \in DOMAIN objs : objs[i].review_id # d
         /\ \A j \in DOMAIN through :
              (/\ through[j].review_id = d
               /\ \/ InAnyEntryList(through[j].comment.pk)
                  \/ InAnyReplyList(through[j].comment.pk))
                => \E k \in RowsOf(through[j].comment.pk) :
                     all_reviews[through[k].review_id].public
  /\ \A o \in ListedObjects :
       o \in DOMAIN objs /\ all_reviews[objs[o].review_id].public

\* A draft with a body-reply link shares a comment with a public top-level
\* review, and the comment is in that review's entry.
C4_Witness ==
  /\ pc = "returned"
  /\ \E d \in DOMAIN all_reviews :
       /\ ~all_reviews[d].public
       /\ all_reviews[d].body_top_reply_to_id # None
       /\ \E j \in DOMAIN through :
            /\ through[j].review_id = d
            /\ InAnyEntryList(through[j].comment.pk)

\* The review sets of C5: review 1 public and top-level, every other review
\* a public reply to it.
OneReviewWithReplies ==
  /\ Len(all_reviews) >= 1
  /\ all_reviews[1].public /\ all_reviews[1].base_reply_to_id = None
  /\ \A i \in 2..Len(all_reviews) :
       all_reviews[i].public /\ all_reviews[i].base_reply_to_id = 1

\* C5 as stated: one entry, whose review's _body_top_replies holds all N
\* replies in fetch order.
C5_TopRepliesAreAllReplies ==
  (pc = "returned" /\ OneReviewWithReplies) =>
    /\ Len(entries) = 1
    /\ rev_top[entries[1].review] = [i \in 1..(Len(all_reviews) - 1) |-> i + 1]

\* C5 amended: one entry, whose review's _body_top_replies holds, in fetch
\* order, the replies whose body_top_reply_to is that review (all N of them
\* exactly when every reply answers the body top).
C5_TopRepliesAreBodyTopReplies ==
  (pc = "returned" /\ OneReviewWithReplies) =>
    /\ Len(entries) = 1
    /\ entries[1].review = 1
    /\ rev_top[1] =
         PksOf(SelectSeq(all_reviews, LAMBDA r : r.body_top_reply_to_id = 1))

C5_Witness ==
  /\ pc = "returned"
  /\ OneReviewWithReplies
  /\ Len(all_reviews) = 3
  /\ rev_top[1] = <<2, 3>>

\* ------------------------------------------------------ flatten claims ---
OnCycle(c) ==
  \E d \in ChainIds :
    /\ c # d
    /\ d \in SeqToSet(fl_replies[c])
    /\ c \in SeqToSet(fl_replies[d])

\* C6: flatten_comment detects the revisit of a comment id: a comment on a
\* 2-cycle is never entered while a call on it is still in progress, so the
\* call fails at the first revisit instead of recursing further.
C6_RevisitDetected ==
  \A i, j \in DOMAIN fl_stack :
    (i # j /\ OnCycle(fl_stack[i].comment))
      => fl_stack[i].comment # fl_stack[j].comment

\* The step-by-step run and the recursive definition agree.
FlattenAgrees ==
  LET r == flatten_comment(fl_root, fl_replies,
                           [c \in ChainIds |-> CommentText(c)], 1) IN
  /\ fl_state = "returned" => r.ok /\ r.text = fl_text
  /\ fl_state = "raised" => ~r.ok

\* ------------------------------------------------------- indexer claims ---
InRun == hpc \in {"loop", "optimize", "close", "finished"}

Raises(id) == index_review_request(id, req_reviews[id], req_through[id]).err

\* C7: an exception raised while one review request is indexed is caught and
\* the request's id logged, and the loop goes on to every later request:
\* every request the loop has passed is logged or has its document added,
\* and one whose indexing raises is logged; writer.optimize() and
\* writer.close() are reached once every fetched request was passed.  No
\* run ends by an exception raised in the loop: a run that ends by an
\* exception ends before the loop (reading the timestamp file or opening
\* the writer) or in writer.optimize() or writer.close() itself, after
\* every request was passed.  On a terminal every passed request is counted
\* or logged; it is both when the count of line 259 was 0.
C7_FailuresDoNotAbort ==
  /\ InRun =>
       /\ Len(stderr) <= pos - 1
       /\ SeqToSet(stderr) \subseteq {objects[k] : k \in 1..(pos - 1)}
       /\ \A k \in 1..(pos - 1) :
            /\ Raises(objects[k]) # "none" => objects[k] \in SeqToSet(stderr)
            /\ \/ objects[k] \in SeqToSet(stderr)
               \/ \E d \in DOMAIN index : index[d].id = objects[k]
       /\ ~stdout_isatty => progress = 0
       /\ (stdout_isatty /\ totalobjs > 0) =>
            progress + Len(stderr) = pos - 1
       /\ (stdout_isatty /\ totalobjs = 0) => Len(stderr) = pos - 1
  /\ hpc \in {"optimize", "close", "finished"} =>
       writer_open = (hpc # "finished") /\ pos = Len(objects) + 1
  /\ hpc = "finished" => optimized /\ exc = "none"
  /\ hpc = "crashed" =>
       \/ /\ ~writer_open /\ objects = <<>> /\ pos = 1 /\ stderr = <<>>
          /\ exc \in {"ValueError", "AssertionError", "JavaError"}
       \/ /\ writer_open /\ optimized /\ pos = Len(objects) + 1
          /\ exc = "JavaError"

C7_Witness ==
  /\ hpc = "finished"
  /\ stdout_isatty
  /\ Len(objects) = 2
  /\ Raises(objects[1]) = "KeyError"
  /\ stderr = <<objects[1]>>
  /\ progress = 1
  /\ \E i \in DOMAIN index : index[i].id = objects[2]

DocsWithId(id) == {i \in DOMAIN index : index[i].id = id}

\* C8: the index never holds two documents with the same id, and in
\* incremental mode a request the loop has indexed has exactly one document.
C8_OneDocumentPerId ==
  /\ \A i, j \in DOMAIN index : i # j => index[i].id # index[j].id
  /\ (InRun /\ incremental) =>
       \A k \in 1..(pos - 1) :
         objects[k] \notin SeqToSet(stderr)
           => Cardinality(DocsWithId(objects[k])) = 1

\* C9: an incremental run that finds the timestamp file missing or without
\* a valid number does not fail; it goes on as a full rebuild.
C9_BadWatermarkDegrades ==
  (opt_incremental /\ ~(ts_file.exists /\ ts_file.parses)) =>
    /\ hpc = "write_ts" => ~incremental
    /\ ~(hpc = "crashed" /\ exc = "ValueError")

FileHoldsRunTime ==
  /\ ts_file.exists /\ ts_file.parses
  /\ run_started <= ts_file.value /\ ts_file.value <= now

\* C10: the step that opens the writer and every step that adds or deletes
\* a document find the timestamp file already holding the time of this run;
\* the file is written by the run only while no writer is open, with the
\* current time, and in incremental mode after the old value was read.
C10_WatermarkFirst ==
  [][ /\ (writer_open' /\ ~writer_open) =>
           (FileHoldsRunTime /\ ts_file' = ts_file)
      /\ index' # index => (FileHoldsRunTime /\ ts_file' = ts_file)
      /\ (hpc = "write_ts" /\ hpc' # hpc) =>
           /\ ts_file' = [exists |-> TRUE, parses |-> TRUE, value |-> now]
           /\ ~writer_open /\ ~writer_open' /\ index' = index
           /\ (opt_incremental /\ ts_file.exists /\ ts_file.parses)
                => (incremental /\ timestamp = ts_file.value)
    ]_vars

C10_Witness ==
  /\ hpc = "optimize"
  /\ writer_open
  /\ incremental
  /\ timestamp < ts_file.value
  /\ Len(index) >= 2

====
